---- MODULE Spec2Model ----
(***************************************************************************)
(* Model of the Hero API of src/main.py: one SQLite table "hero", a        *)
(* per-request storage session (get_session) and three request handlers   *)
(* (create_hero, read_heroes, read_hero) served concurrently by a pool of  *)
(* worker threads.                                                         *)
(*                                                                         *)
(* Optional values (Optional[int], Optional[str]) are modelled as          *)
(* sequences of length 0 or 1: None is << >> and a present value x is      *)
(* << x >>.                                                                *)
(***************************************************************************)
EXTENDS Integers, Sequences, FiniteSets

\* ------------------------------------------------------------------ bounds
MaxRequests == 3       \* requests received in one behaviour
MaxId == 1             \* largest id a client sends in a body

Workers == {"w1", "w2"}          \* threads serving requests at the same time
ClientIds == {0, MaxId}
PathIds == {0, MaxId, MaxId + 1}
HeroNames == {"Astra", "Bolt"}
FilterNames == {"Bolt", ""}
Ages == {0, 30}

\* ------------------------------------------------------ optional values
None == << >>
Some(x) == << x >>
Opt(S) == {None} \cup {Some(x) : x \in S}

VARIABLES
  table,         \* rows of the hero table: records [id, name, age]
  pc,            \* per worker: "idle", "open" (session yielded),
                 \* "committed" (create_hero past line 67), "responded"
  request,       \* per worker: the request its handler was called with
  session,       \* per worker: the Session object yielded to it (0: none)
  openSessions,  \* Session objects entered and not yet exited
  nsessions,     \* Session objects constructed so far
  response,      \* per worker: the response of its handler
  inserted,      \* per worker: hero.id once its INSERT is committed
  created,       \* history: the records returned by successful creates
  completedIds,  \* history: ids returned by creates whose request has ended
  seen           \* per worker: completedIds when its request arrived

vars == << table, pc, request, session, openSessions, nsessions, response,
           inserted, created, completedIds, seen >>

\* ---------------------------------------------------------------- Hero
\* class Hero: id Optional[int] (primary key), name str, age Optional[int].
\* A request body as parsed: every field may be absent.
Hero == [id : Opt(ClientIds), name : Opt(HeroNames), age : Opt(Ages)]

\* hero: Hero as the body parameter: the body has to be a JSON object. A
\* table class constructs from the object without validating its fields, so
\* an object without name is accepted; id and age default to None.
ValidHero(req) == req.body = "object"

\* name: str is a NOT NULL column: the INSERT of a hero without name raises
\* IntegrityError.
NotNullError(hero) == hero.name = None

\* The name/age pairs clients send; they also send the empty object and a
\* body that is no object.
Bodies ==
  {<< Some("Astra"), Some(30) >>, << Some("Bolt"), None >>}

NoRequest ==
  [kind |-> "none", body |-> "none", id |-> None, name |-> None, age |-> None]
EmptyObject ==
  [kind |-> "create", body |-> "object", id |-> None, name |-> None, age |-> None]
NotAnObject ==
  [kind |-> "create", body |-> "array", id |-> None, name |-> None, age |-> None]

CreateRequests ==
  {[kind |-> "create", body |-> "object", id |-> h.id, name |-> h.name, age |-> h.age] :
     h \in {x \in Hero : << x.name, x.age >> \in Bodies}}
    \cup {EmptyObject, NotAnObject}
ListRequests ==
  {[kind |-> "list", body |-> "none", id |-> None, name |-> n, age |-> a] :
     n \in Opt(FilterNames), a \in Opt(Ages)}
GetRequests ==
  {[kind |-> "get", body |-> "none", id |-> Some(i), name |-> None, age |-> None] :
     i \in PathIds}
Requests == CreateRequests \cup ListRequests \cup GetRequests

\* ------------------------------------------------------------ responses
NoResponse == [status |-> 0, hero |-> None, heroes |-> << >>, detail |-> ""]
HeroResponse(row) == [status |-> 200, hero |-> Some(row), heroes |-> << >>, detail |-> ""]
ListResponse(rows) == [status |-> 200, hero |-> None, heroes |-> rows, detail |-> ""]
ErrorResponse(code, msg) == [status |-> code, hero |-> None, heroes |-> << >>, detail |-> msg]

\* -------------------------------------------------------------- storage
Ids(T) == {row.id : row \in T}

MaxOf(S) == CHOOSE m \in S : \A x \in S : x <= m
MinOf(S) == CHOOSE m \in S : \A x \in S : m <= x

\* INTEGER PRIMARY KEY of SQLite: an insert without id takes 1 in an empty
\* table and the largest rowid plus one otherwise.
NewRowid(T) == IF T = {} THEN 1 ELSE MaxOf(Ids(T)) + 1

\* The id of the row an INSERT of `hero` writes: the one the object carries,
\* the table's next rowid when it carries None.
InsertId(T, hero) == IF hero.id = None THEN NewRowid(T) ELSE hero.id[1]

\* Faulty variant: a table without the primary key constraint.
IntegrityError_none(T, id) == FALSE

\* The primary key constraint: the INSERT raises IntegrityError.
IntegrityError(T, id) == id \in Ids(T)

\* session.add(hero); session.commit(): one row more.
Commit(T, id, hero) == T \cup {[id |-> id, name |-> hero.name[1], age |-> hero.age]}

\* session.refresh(hero): the object's fields as the row of its primary key
\* holds them.
Refresh(T, id) == CHOOSE row \in T : row.id = id

\* Faulty variant: a lookup that is off by one.
SessionGet_next(T, id) ==
  IF \E row \in T : row.id = id + 1
    THEN Some(CHOOSE row \in T : row.id = id + 1)
    ELSE None

\* session.get(Hero, hero_id): the row of that primary key, None when there
\* is none.
SessionGet(T, id) ==
  IF \E row \in T : row.id = id
    THEN Some(CHOOSE row \in T : row.id = id)
    ELSE None

\* Python truthiness of the Optional[str] and Optional[int] parameters.
TruthyStr(name) == name # None /\ name[1] # ""

\* Variant: the test `age is not None`.
TruthyInt_isnotnone(age) == age # None

TruthyInt(age) == age # None /\ age[1] # 0

\* Faulty variant: both where clauses added whatever the parameters.
Select_unguarded(T, name, age) ==
  {row \in T : Some(row.name) = name /\ row.age = age}

\* The query of read_heroes: select(Hero) with a where clause per truthy
\* parameter.
Select(T, name, age) ==
  {row \in T :
     /\ TruthyStr(name) => row.name = name[1]
     /\ TruthyInt(age) => row.age = age}

\* .all(): the rows in rowid order.
RECURSIVE All(_)
All(S) ==
  IF S = {} THEN << >>
  ELSE LET m == MinOf(Ids(S))
           first == CHOOSE row \in S : row.id = m
       IN << first >> \o All({row \in S : row.id # m})

\* Faulty variant: the test `if not hero or not hero.id`.
NotFound_falsy_id(hero) == hero = None \/ hero[1].id = 0

\* if not hero
NotFound(hero) == hero = None

\* ------------------------------------------------------------- actions
Init ==
  /\ table = {}
  /\ pc = [w \in Workers |-> "idle"]
  /\ request = [w \in Workers |-> NoRequest]
  /\ session = [w \in Workers |-> 0]
  /\ openSessions = {}
  /\ nsessions = 0
  /\ response = [w \in Workers |-> NoResponse]
  /\ inserted = [w \in Workers |-> None]
  /\ created = {}
  /\ completedIds = {}
  /\ seen = [w \in Workers |-> {}]

\* A request arrives at worker w and its dependency is solved: get_session
\* constructs a Session, enters it and yields it.
get_session(w) ==
  /\ pc[w] = "idle"
  /\ nsessions < MaxRequests
  /\ nsessions' = nsessions + 1
  /\ session' = [session EXCEPT ![w] = nsessions + 1]
  /\ openSessions' = openSessions \cup {nsessions + 1}
  /\ seen' = [seen EXCEPT ![w] = completedIds]
  /\ pc' = [pc EXCEPT ![w] = "open"]
  /\ UNCHANGED << table, request, response, inserted, created, completedIds >>

\* The body of a create request is no object: 422, and create_hero is not
\* called.
RequestValidationError(w, req) ==
  /\ pc[w] = "open"
  /\ req.kind = "create"
  /\ ~ValidHero(req)
  /\ request' = [request EXCEPT ![w] = req]
  /\ response' = [response EXCEPT ![w] = ErrorResponse(422, "Unprocessable Entity")]
  /\ pc' = [pc EXCEPT ![w] = "responded"]
  /\ UNCHANGED << table, session, openSessions, nsessions, inserted, created,
                  completedIds, seen >>

\* create_hero up to line 67: session.add(hero); session.commit(). The row
\* is stored, and visible to every other session, before the handler goes
\* on; a duplicate primary key or a missing name raises IntegrityError,
\* which leaves the handler as a 500 with nothing stored.
create_hero(w, req) ==
  /\ pc[w] = "open"
  /\ req.kind = "create"
  /\ ValidHero(req)
  /\ request' = [request EXCEPT ![w] = req]
  /\ LET id == InsertId(table, req)
     IN IF NotNullError(req) \/ IntegrityError(table, id)
          THEN /\ response' = [response EXCEPT ![w] =
                                 ErrorResponse(500, "Internal Server Error")]
               /\ pc' = [pc EXCEPT ![w] = "responded"]
               /\ UNCHANGED << table, inserted >>
          ELSE /\ table' = Commit(table, id, req)
               /\ inserted' = [inserted EXCEPT ![w] = Some(id)]
               /\ pc' = [pc EXCEPT ![w] = "committed"]
               /\ UNCHANGED response
  /\ UNCHANGED << session, openSessions, nsessions, created, completedIds, seen >>

\* create_hero lines 68-69: session.refresh(hero); return hero.
create_hero_return(w) ==
  /\ pc[w] = "committed"
  /\ response' = [response EXCEPT ![w] = HeroResponse(Refresh(table, inserted[w][1]))]
  /\ created' = created \cup {Refresh(table, inserted[w][1])}
  /\ pc' = [pc EXCEPT ![w] = "responded"]
  /\ UNCHANGED << table, request, session, openSessions, nsessions, inserted,
                  completedIds, seen >>

read_heroes(w, req) ==
  /\ pc[w] = "open"
  /\ req.kind = "list"
  /\ request' = [request EXCEPT ![w] = req]
  /\ response' = [response EXCEPT ![w] =
                    ListResponse(All(Select(table, req.name, req.age)))]
  /\ pc' = [pc EXCEPT ![w] = "responded"]
  /\ UNCHANGED << table, session, openSessions, nsessions, inserted, created,
                  completedIds, seen >>

read_hero(w, req) ==
  /\ pc[w] = "open"
  /\ req.kind = "get"
  /\ request' = [request EXCEPT ![w] = req]
  /\ LET hero == SessionGet(table, req.id[1])
     IN response' = [response EXCEPT ![w] =
                       IF NotFound(hero)
                         THEN ErrorResponse(404, "Hero not found")
                         ELSE HeroResponse(hero[1])]
  /\ pc' = [pc EXCEPT ![w] = "responded"]
  /\ UNCHANGED << table, session, openSessions, nsessions, inserted, created,
                  completedIds, seen >>

\* The storage engine fails the first statement of a handler (the database
\* is locked or unreachable): the INSERT of create_hero, the SELECT of
\* read_heroes or read_hero. Nothing is written; the exception leaves the
\* handler, 500.
StorageError(w, req) ==
  /\ pc[w] = "open"
  /\ req.kind = "create" => ValidHero(req)
  /\ request' = [request EXCEPT ![w] = req]
  /\ response' = [response EXCEPT ![w] = ErrorResponse(500, "Internal Server Error")]
  /\ pc' = [pc EXCEPT ![w] = "responded"]
  /\ UNCHANGED << table, session, openSessions, nsessions, inserted, created,
                  completedIds, seen >>

\* The storage engine fails the SELECT of session.refresh(hero), after the
\* commit: 500, and the row stays stored.
RefreshError(w) ==
  /\ pc[w] = "committed"
  /\ response' = [response EXCEPT ![w] = ErrorResponse(500, "Internal Server Error")]
  /\ pc' = [pc EXCEPT ![w] = "responded"]
  /\ UNCHANGED << table, request, session, openSessions, nsessions, inserted,
                  created, completedIds, seen >>

\* Faulty variant: the request ends and the Session is left open.
get_session_exit_leak(w) ==
  /\ pc[w] = "responded"
  /\ completedIds' =
       IF request[w].kind = "create" /\ response[w].status = 200
         THEN completedIds \cup {response[w].hero[1].id}
         ELSE completedIds
  /\ pc' = [pc EXCEPT ![w] = "idle"]
  /\ request' = [request EXCEPT ![w] = NoRequest]
  /\ response' = [response EXCEPT ![w] = NoResponse]
  /\ inserted' = [inserted EXCEPT ![w] = None]
  /\ session' = [session EXCEPT ![w] = 0]
  /\ seen' = [seen EXCEPT ![w] = {}]
  /\ UNCHANGED << table, nsessions, created, openSessions >>

\* The request ends: the with block of get_session exits and closes the
\* Session, whatever the handler returned or raised.
get_session_exit(w) ==
  /\ pc[w] = "responded"
  /\ openSessions' = openSessions \ {session[w]}
  /\ completedIds' =
       IF request[w].kind = "create" /\ response[w].status = 200
         THEN completedIds \cup {response[w].hero[1].id}
         ELSE completedIds
  /\ pc' = [pc EXCEPT ![w] = "idle"]
  /\ request' = [request EXCEPT ![w] = NoRequest]
  /\ response' = [response EXCEPT ![w] = NoResponse]
  /\ inserted' = [inserted EXCEPT ![w] = None]
  /\ session' = [session EXCEPT ![w] = 0]
  /\ seen' = [seen EXCEPT ![w] = {}]
  /\ UNCHANGED << table, nsessions, created >>

Next ==
  \E w \in Workers :
    \/ get_session(w)
    \/ \E req \in Requests : RequestValidationError(w, req)
    \/ \E req \in Requests : create_hero(w, req)
    \/ create_hero_return(w)
    \/ \E req \in Requests : read_heroes(w, req)
    \/ \E req \in Requests : read_hero(w, req)
    \/ \E req \in Requests : StorageError(w, req)
    \/ RefreshError(w)
    \/ get_session_exit(w)

Spec == Init /\ [][Next]_vars

\* ------------------------------------------------- session lifecycle
\* One request per way a handler ends: a rejected body, a create without
\* name, a create (which raises IntegrityError the second time), a listing,
\* a lookup.
LifecycleRequests ==
  {NotAnObject, EmptyObject,
   [kind |-> "create", body |-> "object", id |-> Some(0), name |-> Some("Astra"),
    age |-> Some(30)],
   [kind |-> "list", body |-> "none", id |-> None, name |-> None, age |-> None],
   [kind |-> "get", body |-> "none", id |-> Some(0), name |-> None, age |-> None]}

Handle(w) ==
  \/ \E req \in LifecycleRequests :
       \/ RequestValidationError(w, req)
       \/ create_hero(w, req)
       \/ read_heroes(w, req)
       \/ read_hero(w, req)
       \/ StorageError(w, req)
  \/ create_hero_return(w)
  \/ RefreshError(w)

LifecycleNext ==
  \E w \in Workers :
    \/ get_session(w)
    \/ Handle(w)
    \/ get_session_exit(w)

\* A worker thread that has been given a request runs its handler to the
\* end, and the dependency's with block exits once the handler has.
LifecycleSpec ==
  /\ Init
  /\ [][LifecycleNext]_vars
  /\ \A w \in Workers : WF_vars(Handle(w)) /\ WF_vars(get_session_exit(w))

\* ---------------------------------------------------------- properties
\* Steps of worker w, as seen in a pair of states: the first storage
\* statement of the handler of a request of that kind, and the return of
\* create_hero.
Handled(w, kind) ==
  pc[w] = "open" /\ pc'[w] # "open" /\ request'[w].kind = kind
Returned(w) == pc[w] = "committed" /\ pc'[w] = "responded"
Responded(w, kind) == pc[w] = "responded" /\ request[w].kind = kind
Range(seq) == {seq[i] : i \in 1..Len(seq)}
InternalServerError == ErrorResponse(500, "Internal Server Error")

\* C1 as stated: a get-by-id for the id of a record some create has
\* returned, however many requests were served in between, answers 200 with
\* that very record.
C1_RoundTrip ==
  [][\A w \in Workers :
       Handled(w, "get") =>
         \A rec \in created :
           rec.id = request'[w].id[1] => response'[w] = HeroResponse(rec)]_vars

\* C1 as amended: such a get-by-id answers 200 with that very record, or 500
\* when the storage engine fails the lookup; never 404 or another record.
C1_RoundTripUnlessStorageFails ==
  [][\A w \in Workers :
       Handled(w, "get") =>
         \A rec \in created :
           rec.id = request'[w].id[1] =>
             response'[w] \in {HeroResponse(rec), InternalServerError}]_vars

\* A lookup answered with a record whose create ended before the lookup
\* arrived, with a second create in between.
C1_Witness ==
  \E w \in Workers :
    /\ Responded(w, "get")
    /\ response[w].status = 200
    /\ response[w].hero[1] \in created
    /\ response[w].hero[1].id \in seen[w]
    /\ \E other \in created : other.id > response[w].hero[1].id

\* C2: stored records have pairwise distinct ids; the row a create commits
\* has an id no stored record had; and a create that succeeds returns the
\* record of that id, with the name and age of the request body.
C2_UniqueIdExactFields ==
  /\ [](\A r1, r2 \in table : r1.id = r2.id => r1 = r2)
  /\ [][\A w \in Workers :
          /\ (Handled(w, "create") /\ pc'[w] = "committed") =>
               /\ inserted'[w] # None
               /\ inserted'[w][1] \notin Ids(table)
               /\ inserted'[w][1] \in Ids(table')
          /\ (Returned(w) /\ response'[w].status = 200) =>
               /\ response'[w].hero # None
               /\ response'[w].hero[1].id = inserted[w][1]
               /\ response'[w].hero[1].name = request[w].name[1]
               /\ response'[w].hero[1].age = request[w].age
               /\ response'[w].hero[1] \in table]_vars

\* A create answered with a record while two other records are stored.
C2_Witness ==
  \E w \in Workers :
    /\ Responded(w, "create")
    /\ response[w].status = 200
    /\ Cardinality(table) = 3
    /\ response[w].hero[1] \in table

\* C3 as stated: the id of the row a create stores is the one the table
\* assigns, whatever id the body carries, and a create whose body carries
\* the id of a stored record does not fail.
C3_SuppliedIdIgnored ==
  [][\A w \in Workers :
       (Handled(w, "create") /\ ValidHero(request'[w])) =>
         /\ pc'[w] = "committed" => inserted'[w] = Some(NewRowid(table))
         /\ (request'[w].id # None /\ request'[w].id[1] \in Ids(table)) =>
              pc'[w] = "committed"]_vars

\* C4 as stated: a get-by-id for an id no stored record has answers 404
\* "Hero not found", and a get-by-id for a stored id does not answer 404.
C4_NotFoundIffAbsent ==
  [][\A w \in Workers :
       Handled(w, "get") =>
         /\ request'[w].id[1] \notin Ids(table) =>
              response'[w] = ErrorResponse(404, "Hero not found")
         /\ request'[w].id[1] \in Ids(table) => response'[w].status # 404]_vars

\* C4 as amended: a get-by-id for an id no stored record has answers 404
\* "Hero not found", or 500 when the storage engine fails the lookup, never
\* 200; a get-by-id for a stored id answers 200 with the record of that id,
\* or that 500, never 404.
C4_NotFoundIffAbsentUnlessStorageFails ==
  [][\A w \in Workers :
       Handled(w, "get") =>
         /\ request'[w].id[1] \notin Ids(table) =>
              response'[w] \in {ErrorResponse(404, "Hero not found"),
                                InternalServerError}
         /\ request'[w].id[1] \in Ids(table) =>
              \/ response'[w] = InternalServerError
              \/ /\ response'[w].status = 200
                 /\ response'[w].hero # None
                 /\ response'[w].hero[1] \in table
                 /\ response'[w].hero[1].id = request'[w].id[1]]_vars

\* A lookup answered 404 while the table holds other records.
C4_Witness ==
  \E w \in Workers :
    /\ Responded(w, "get")
    /\ response[w].status = 404
    /\ response[w].detail = "Hero not found"
    /\ table # {}
    /\ request[w].id[1] \notin Ids(table)

\* C5 as stated: a listing without name and age returns the record of every
\* create that had ended when the listing arrived, each record once, and
\* nothing but records that creates have returned.
C5_ListAll ==
  [][\A w \in Workers :
       (/\ Handled(w, "list")
        /\ request'[w].name = None /\ request'[w].age = None
        /\ response'[w].status = 200) =>
         /\ {rec \in created : rec.id \in seen[w]} \subseteq Range(response'[w].heroes)
         /\ Range(response'[w].heroes) \subseteq created
         /\ Len(response'[w].heroes) = Cardinality(Range(response'[w].heroes))]_vars

\* C5 as amended: a listing without name and age returns every row committed
\* when its query runs, each once: the record of every create that has
\* returned, and also the row of a create that has committed and not
\* returned (still running, or failed after its commit).
C5_ListAllCommitted ==
  [][\A w \in Workers :
       (/\ Handled(w, "list")
        /\ request'[w].name = None /\ request'[w].age = None
        /\ response'[w].status = 200) =>
         /\ created \subseteq Range(response'[w].heroes)
         /\ Range(response'[w].heroes) = table
         /\ Len(response'[w].heroes) = Cardinality(table)]_vars

\* An unfiltered listing of two rows, one of them of a create that has not
\* returned a record.
C5_Witness ==
  \E w \in Workers :
    /\ Responded(w, "list")
    /\ request[w].name = None /\ request[w].age = None
    /\ Len(response[w].heroes) = 2
    /\ \E i \in 1..2 : response[w].heroes[i] \notin created
    /\ \E i \in 1..2 : response[w].heroes[i] \in created

\* C6 as stated: a listing returns exactly the stored records that satisfy
\* every parameter present in the request; only an absent parameter imposes
\* no filter.
C6_FilterWhenPresent ==
  [][\A w \in Workers :
       (Handled(w, "list") /\ response'[w].status = 200) =>
         Range(response'[w].heroes) =
           {row \in table :
              /\ request'[w].name # None => row.name = request'[w].name[1]
              /\ request'[w].age # None => row.age = request'[w].age}]_vars

\* C7 as stated: a create returns an id greater than the id of every create
\* that had ended when its request arrived.
C7_IdsIncrease ==
  \A w \in Workers :
    (Responded(w, "create") /\ response[w].status = 200) =>
      \A id \in seen[w] : id < response[w].hero[1].id

\* C8: every request being served holds an open session of its own, no
\* session is open for a request that has ended, and every session opened is
\* eventually closed, whichever way the handler ends.
C8_SessionReleased ==
  /\ [](\A w \in Workers :
          /\ pc[w] # "idle" => session[w] \in openSessions
          /\ pc[w] = "idle" => session[w] = 0
          /\ \A v \in Workers : (v # w /\ pc[v] # "idle" /\ pc[w] # "idle")
                                   => session[v] # session[w])
  /\ [](openSessions = {session[w] : w \in {v \in Workers : pc[v] # "idle"}})
  /\ \A s \in 1..MaxRequests : (s \in openSessions) ~> (s \notin openSessions)

\* Two requests end in errors (a storage failure after the commit of a
\* create, and a 404) holding two sessions, after the session of an earlier
\* request was closed.
C8_Witness ==
  \E w, v \in Workers :
    /\ Responded(w, "create") /\ response[w].status = 500 /\ inserted[w] # None
    /\ Responded(v, "get") /\ response[v].status = 404
    /\ openSessions = {session[w], session[v]}
    /\ session[w] # session[v]
    /\ nsessions = 3

\* C9 as stated: every stored row is the record a successful create returned
\* (or the row of a create still between its commit and its return), rows
\* are added one at a time by creates only, and no row is ever removed or
\* altered.
C9_OnlyCreateWrites ==
  /\ [](\A row \in table :
          \/ row \in created
          \/ \E w \in Workers : pc[w] = "committed" /\ inserted[w] = Some(row.id))
  /\ [](created \subseteq table)
  /\ [][/\ table \subseteq table'
        /\ table' # table =>
             \E w \in Workers :
               /\ Handled(w, "create")
               /\ Cardinality(table') = Cardinality(table) + 1]_vars

\* C10: a listing with age 0 returns what the same listing without age
\* returns, and a listing with the empty name what the same listing without
\* name returns.
C10_FalsyFilterIgnored ==
  [][\A w \in Workers :
       (Handled(w, "list") /\ response'[w].status = 200) =>
         LET name == request'[w].name
             age == request'[w].age
             byName == name \notin {None, Some("")}
             byAge == age \notin {None, Some(0)}
         IN (name = Some("") \/ age = Some(0)) =>
              Range(response'[w].heroes) =
                {row \in table :
                   /\ byName => row.name = name[1]
                   /\ byAge => row.age = age}]_vars

\* A listing with age 0 that returns a record whose age is not 0.
C10_Witness ==
  \E w \in Workers :
    /\ Responded(w, "list")
    /\ request[w].age = Some(0)
    /\ response[w].status = 200
    /\ \E i \in 1..Len(response[w].heroes) : response[w].heroes[i].age # Some(0)
====
